---- MODULE Spec2Model ----
(***************************************************************************)
(* Pick-up-group cog: the session registry of pug.py (lobbies,             *)
(* react_to_join) and the Lobby / Team objects of objects.py.              *)
(*                                                                         *)
(* Every command is a cooperative task.  A task runs from one await of the *)
(* source to the next in one step; the effect of the awaited platform call *)
(* (role / channel creation or deletion, member.edit) lands in the step    *)
(* that resumes after it.  Tasks interleave only between steps.            *)
(*                                                                         *)
(* Left out, read by no property below: voice presence (member.move_to),   *)
(* permission overwrites, the text of the notifications.  The sends of     *)
(* Team.move are steps of the calls of move and add_members modelled on    *)
(* their own; inside the commands they change nothing kept here.           *)
(*                                                                         *)
(* formatting.py binds neither BytesIO, LOG nor discord, so a call of log  *)
(* raises NameError at its first line: that is what teardown sees.  The    *)
(* buffer loop of log is modelled on its own, followed both in the module  *)
(* as it is and with the three names bound, to settle what the loop emits. *)
(***************************************************************************)
EXTENDS Integers, Sequences, FiniteSets, TLC

\* ---- bounds of the model ------------------------------------------------
NumScopes == 1      \* categories
NumMembers == 3     \* guild members
MaxLobbies == 2     \* lobby roles ever created
MaxTasks == 2       \* commands in flight at once
MaxSize == 4        \* largest size / count argument of a split
LifeSize == 1       \* largest split size in the life-cycle specification
AddSize == 5        \* largest split size in the add_members specification

Scopes == 1..NumScopes          \* category ids
NoCategory == 0                 \* ctx.channel.category_id is None
Members == 1..NumMembers
LobbyIds == 1..MaxLobbies       \* one per lobby role ever created
TaskIds == 1..MaxTasks
NoLobby == 0                    \* key absent from a dict / None

VARIABLES
    lobbies,        \* PUG.lobbies: category id -> lobby (NoLobby: no key)
    react_to_join,  \* PUG.react_to_join: message id -> lobby (NoLobby: no key)
    obj,            \* the Lobby objects: role, text, voice, category, teams
    roles,          \* member.roles, the grants each member holds
    settings,       \* guild config: team_text, team_voice, archive (set or not)
    allocated,      \* number of lobby roles requested so far
    task,           \* the commands in flight, each at an await
    ret,            \* what the command that returned last reported
    hist            \* history: per lobby, facts about its past

vars == <<lobbies, react_to_join, obj, roles, settings, allocated, task, ret, hist>>

\* ---- objects -------------------------------------------------------------
\* A platform resource handle is "none" (never made), "live" or "deleted" on
\* the platform.  The Python attribute is truthy once set, deleted or not.

\* Team(role): text and voice default to None.
NewTeam == [role |-> "live", text |-> "none", voice |-> "none"]

\* A lobby id not yet constructed.
NoObj == [role |-> "none", text |-> "none", voice |-> "none",
          category |-> NoCategory, teams |-> <<>>]

\* The grant of team i of lobby l; i = 0 is the lobby's own role.
Grant(l, i) == <<l, i>>

\* Team.members / Team.__len__ : the holders of the role.
members(l, i) == {m \in Members : Grant(l, i) \in roles[m]}
len(l, i) == Cardinality(members(l, i))

\* Team i of lobby l as a Team object; i = 0 is the lobby itself.
Group(l, i) == IF i = 0 THEN [role |-> obj[l].role, text |-> obj[l].text,
                              voice |-> obj[l].voice]
               ELSE obj[l].teams[i]

NoGroup == 0 - 1        \* from_team / to_team is None

\* ---- pure helpers ----------------------------------------------------------
Rep(x, k) == [j \in 1..k |-> x]     \* itertools.repeat(x, k); empty when k <= 0

RECURSIVE Perms(_)
Perms(S) == IF S = {} THEN {<<>>}
            ELSE UNION {{<<x>> \o p : p \in Perms(S \ {x})} : x \in S}

Take(s, k) == SubSeq(s, 1, IF k < Len(s) THEN k ELSE Len(s))      \* s[:k], k >= 0
Drop(s, k) == SubSeq(s, (IF k < Len(s) THEN k ELSE Len(s)) + 1, Len(s))  \* s[k:]

\* Mutant: the size is rounded down.
ceil_div_floor(n, count) == n \div count

\* math.ceil(n / count) for n >= 0, count >= 1
ceil_div(n, count) == (n + count - 1) \div count

\* objects.py 179-185: the sizes the loop of assign_teams iterates over,
\* chain(repeat(size, full), repeat(size - 1, partial)), for size >= 1.
team_sizes(n, size) ==
    LET q == n \div size
        r == n % size
        partial == IF r # 0 THEN size - r ELSE 0
        full == IF r # 0 THEN q - partial ELSE q
    IN  Rep(size, full) \o Rep(size - 1, partial)

\* Mutant: teams that exist already do not stop a split.
assign_teams_error_again(l, size, count) ==
    IF (size # 0) = (count # 0) THEN "TeamError"
    ELSE IF len(l, 0) = 0 THEN "TeamError"
    ELSE "ok"

\* Mutant: size and count given together are accepted (count wins).
assign_teams_error_both(l, size, count) ==
    IF obj[l].teams # <<>> THEN "TeamError"
    ELSE IF size = 0 /\ count = 0 THEN "TeamError"
    ELSE IF len(l, 0) = 0 THEN "TeamError"
    ELSE "ok"

\* objects.py 170-176: the checks assign_teams makes before anything else.
assign_teams_error(l, size, count) ==
    IF obj[l].teams # <<>> THEN "TeamError"
    ELSE IF (size # 0) = (count # 0) THEN "TeamError"
    ELSE IF len(l, 0) = 0 THEN "TeamError"
    ELSE "ok"

\* Mutant: a team as large as the first counts as not full.
first_index_le(l) ==
    LET full == len(l, 1)
        under == {i \in 1..Len(obj[l].teams) : len(l, i) <= full}
    IN  IF under = {} THEN 0 ELSE CHOOSE i \in under : \A j \in under : i <= j

\* objects.py 150-151: index (1-based) of the first team smaller than the
\* first team, 0 when there is none (the source's -1).
first_index(l) ==
    LET full == len(l, 1)
        under == {i \in 1..Len(obj[l].teams) : len(l, i) < full}
    IN  IF under = {} THEN 0 ELSE CHOOSE i \in under : \A j \in under : i <= j

\* Mutant: the check passes whenever no PUG runs, whatever `running` asks.
pug_check_idle(category_id, running) ==
    category_id \notin {s \in Scopes : lobbies[s] # NoLobby}

\* pug.py 10-22: the predicate of pug_check passes.
pug_check(category_id, running) ==
    (category_id \in {s \in Scopes : lobbies[s] # NoLobby}) = running

\* ---- tasks -----------------------------------------------------------------
\* A command in flight: its position (pc) and its local variables.
Idle == [cmd |-> "idle", pc |-> "idle", l |-> NoLobby, cat |-> NoCategory,
         user |-> 0, size |-> 0, count |-> 0, sizes |-> <<>>, sampled |-> <<>>,
         cur |-> <<>>, edit |-> {}, to |-> 0, made |-> 0,
         text |-> FALSE, voice |-> FALSE, ph |-> "none",
         archive |-> FALSE, seen |-> {}, sent |-> 0,
         from_team |-> NoGroup, welcome |-> "None", k |-> 0, rest |-> <<>>,
         edits |-> 0, bye |-> 0, wel |-> 0,
         names |-> {}, bytes |-> 0, pos |-> 0, authors |-> FALSE, bios |-> <<>>,
         files |-> 0]

NoRet == [cmd |-> "none", outcome |-> "none", cat |-> NoCategory, l |-> NoLobby,
          size |-> 0, count |-> 0, made |-> 0,
          archive |-> FALSE, seen |-> {}, sent |-> 0,
          welcome |-> "None", k |-> 0, from_team |-> NoGroup, to |-> 0,
          edits |-> 0, bye |-> 0, wel |-> 0]

Report(c, o, r) == [cmd |-> c, outcome |-> o, cat |-> r.cat, l |-> r.l,
                    size |-> r.size, count |-> r.count, made |-> r.made,
                    archive |-> r.archive, seen |-> r.seen, sent |-> r.sent,
                    welcome |-> r.welcome, k |-> r.k, from_team |-> r.from_team,
                    to |-> r.to,
                    edits |-> r.edits, bye |-> r.bye, wel |-> r.wel]

\* The slot a newly dispatched command takes.
FreeSlot(t) == /\ ret = NoRet
               /\ task[t].cmd = "idle"
               /\ \A u \in TaskIds : task[u].cmd = "idle" => t <= u

\* Task t is suspended at the await named pc and resumes.
At(t, pc) == ret = NoRet /\ task[t].pc = pc

\* self.lobbies.get(category_id)
lookup(category_id) == IF category_id \in Scopes THEN lobbies[category_id] ELSE NoLobby

\* The command of slot t goes on as r, returns, or raises.
Settle(t, r) ==
    IF r.pc = "return"
    THEN /\ task' = [task EXCEPT ![t] = Idle]
         /\ ret' = Report(r.cmd, "ok", r)
    ELSE IF r.pc = "raise"
    THEN /\ task' = [task EXCEPT ![t] = Idle]
         /\ ret' = Report(r.cmd, r.ph, r)
    ELSE /\ task' = [task EXCEPT ![t] = r]
         /\ ret' = ret

\* The command of record r ends by raising (or reporting) outcome o.
Raise(r, o) == [r EXCEPT !.pc = "raise", !.ph = o]

\* The settings are kept by Config across restarts: the cog is constructed
\* with whatever pugset text / pugset voice stored (pug.py 43-46, 175-206);
\* the archive channel is at its registered default, None.
Init ==
    /\ lobbies = [s \in Scopes |-> NoLobby]
    /\ react_to_join = [k \in LobbyIds |-> NoLobby]
    /\ obj = [l \in LobbyIds |-> NoObj]
    /\ roles = [m \in Members |-> {}]
    /\ settings \in [team_text : BOOLEAN, team_voice : BOOLEAN, archive : {FALSE}]
    /\ allocated = 0
    /\ task = [t \in TaskIds |-> Idle]
    /\ ret = NoRet
    /\ hist = [split_ok |-> [l \in LobbyIds |-> FALSE],
               staged |-> [l \in LobbyIds |-> {}]]

\* ---- pug start (pug.py 72-102) ---------------------------------------------
\* The check, then the body up to the await of create_role.  `category` is the
\* command's argument (NoCategory: not given), `cat` the invoking channel's.
StartBegin(t, cat, category) ==
    /\ FreeSlot(t)
    /\ LET target == IF category # NoCategory THEN category ELSE cat
           r == [Idle EXCEPT !.cmd = "start", !.cat = target]
       IN  IF ~pug_check(cat, FALSE)
           THEN /\ ret' = Report("start", "CheckFailure", [r EXCEPT !.cat = cat])
                /\ UNCHANGED <<task, allocated, hist>>
           ELSE IF target = NoCategory
           THEN /\ ret' = Report("start", "help", r)
                /\ UNCHANGED <<task, allocated, hist>>
           ELSE /\ allocated < MaxLobbies
                /\ allocated' = allocated + 1
                /\ task' = [task EXCEPT ![t] =
                               [r EXCEPT !.pc = "start_role", !.l = allocated + 1]]
                /\ hist' = hist
                /\ ret' = ret
    /\ UNCHANGED <<lobbies, react_to_join, obj, roles, settings>>

\* create_role returned: Lobby(role, category) is built and registered.
StartRegister(t) ==
    /\ At(t, "start_role")
    /\ LET r == task[t] IN
       /\ obj' = [obj EXCEPT ![r.l] = [NoObj EXCEPT !.role = "live", !.category = r.cat]]
       /\ lobbies' = [lobbies EXCEPT ![r.cat] = r.l]
       /\ task' = [task EXCEPT ![t].pc = "start_cfg"]
    /\ UNCHANGED <<react_to_join, roles, settings, allocated, ret, hist>>

\* config.guild(...).all() returned: the settings are read.
StartConfig(t) ==
    /\ At(t, "start_cfg")
    /\ task' = [task EXCEPT ![t] =
                   [@ EXCEPT !.text = settings.team_text, !.voice = settings.team_voice,
                             !.pc = IF settings.team_text THEN "start_text"
                                    ELSE IF settings.team_voice THEN "start_voice"
                                    ELSE "start_send"]]
    /\ UNCHANGED <<lobbies, react_to_join, obj, roles, settings, allocated, ret, hist>>

\* lobby.create_text_channel returned.
StartText(t) ==
    /\ At(t, "start_text")
    /\ obj' = [obj EXCEPT ![task[t].l].text = "live"]
    /\ task' = [task EXCEPT ![t].pc = IF task[t].voice THEN "start_voice" ELSE "start_send"]
    /\ UNCHANGED <<lobbies, react_to_join, roles, settings, allocated, ret, hist>>

\* lobby.create_voice_channel returned.
StartVoice(t) ==
    /\ At(t, "start_voice")
    /\ obj' = [obj EXCEPT ![task[t].l].voice = "live"]
    /\ task' = [task EXCEPT ![t].pc = "start_send"]
    /\ UNCHANGED <<lobbies, react_to_join, roles, settings, allocated, ret, hist>>

\* ctx.send returned the message: the trigger is registered.  The reaction
\* added afterwards changes nothing kept here, and its failure is swallowed.
StartSend(t) ==
    /\ At(t, "start_send")
    /\ react_to_join' = [react_to_join EXCEPT ![task[t].l] = task[t].l]
    /\ Settle(t, [task[t] EXCEPT !.pc = "return"])
    /\ UNCHANGED <<lobbies, obj, roles, settings, allocated, hist>>

\* ---- pug join / on_reaction_add (pug.py 104-134) ---------------------------
\* Team.move for one member, up to its await of member.edit (objects.py 51-60):
\* the role list is read and changed here, and sent when the edit lands.
\* from_team / to_team are grants; to_i = 0 adds to the lobby itself.
IssueEdit(r, m, from_l, to_i, next_pc) ==
    IF from_l # NoLobby /\ Grant(from_l, 0) \notin roles[m]
    THEN Raise(r, "ValueError")         \* roles.remove(from_team.role)
    ELSE [r EXCEPT !.pc = next_pc, !.to = to_i,
                   !.edit = (roles[m] \ (IF from_l # NoLobby THEN {Grant(from_l, 0)} ELSE {}))
                                \cup {Grant(r.l, to_i)}]

\* Lobby.add_members(user) called from _join (objects.py 147-159, pug.py 125-134).
add_members(r, l, user) ==
    LET q == [r EXCEPT !.l = l, !.user = user] IN
    IF l = NoLobby THEN Raise(q, "KeyError")
    ELSE IF obj[l].teams # <<>>
    THEN IF first_index(l) = 0 THEN Raise(q, "TeamIsFull")
         ELSE IF (first_index(l) - 1) + 1 > Len(obj[l].teams) THEN Raise(q, "TeamIsFull")
         ELSE IssueEdit(q, user, NoLobby, first_index(l), "join_edit")
    ELSE IssueEdit(q, user, NoLobby, 0, "join_edit")

\* pug join in a channel of category cat, by user.
JoinBegin(t, cat, user) ==
    /\ FreeSlot(t)
    /\ LET r == [Idle EXCEPT !.cmd = "join", !.cat = cat] IN
       IF ~pug_check(cat, TRUE)
       THEN /\ ret' = Report("join", "CheckFailure", r)
            /\ UNCHANGED <<task, hist>>
       ELSE /\ Settle(t, add_members(r, lookup(cat), user))
            /\ hist' = hist
    /\ UNCHANGED <<lobbies, react_to_join, obj, roles, settings, allocated>>

\* A reaction by user on message k.
ReactionAdd(t, k, user) ==
    /\ FreeSlot(t)
    /\ react_to_join[k] # NoLobby
    /\ Settle(t, add_members([Idle EXCEPT !.cmd = "react"], react_to_join[k], user))
    /\ hist' = hist
    /\ UNCHANGED <<lobbies, react_to_join, obj, roles, settings, allocated>>

\* The status of the role behind a grant.
RoleStatus(l, i) == IF i = 0 THEN obj[l].role
                    ELSE IF i <= Len(obj[l].teams) THEN obj[l].teams[i].role
                    ELSE "none"

\* member.edit(roles=roles) landed; a role deleted meanwhile is refused by
\* the platform.  The welcome that follows changes nothing kept here.
JoinEdit(t) ==
    /\ At(t, "join_edit")
    /\ LET r == task[t] IN
       IF RoleStatus(r.l, r.to) # "live"
       THEN /\ Settle(t, Raise(r, "HTTPException"))
            /\ roles' = roles
       ELSE /\ roles' = [roles EXCEPT ![r.user] = r.edit]
            /\ Settle(t, [r EXCEPT !.pc = "return"])
    /\ UNCHANGED <<lobbies, react_to_join, obj, settings, allocated, hist>>

\* ---- Team.move (objects.py 40-72), called on its own ---------------------------
\* The values of the welcome argument.
Welcomes == {"True", "None", "False"}

\* The members of set S as an argument tuple, in increasing order.
RECURSIVE SeqOf(_)
SeqOf(S) == IF S = {} THEN <<>>
            ELSE LET x == CHOOSE y \in S : \A z \in S : y <= z
                 IN  <<x>> \o SeqOf(S \ {x})

\* Whether group i of lobby l has a text channel (truthy once created).
HasText(l, i) == i # NoGroup /\ Group(l, i).text # "none"

\* The loop of move reaches its next member (lines 51-60): the role list is
\* read and changed, and member.edit awaited.
MoveIssue(r) ==
    LET m == Head(r.cur)
        gone == IF r.from_team # NoGroup THEN {Grant(r.l, r.from_team)} ELSE {}
        new == IF r.to # NoGroup THEN {Grant(r.l, r.to)} ELSE {}
    IN  IF ~(gone \subseteq roles[m])
        THEN Raise(r, "ValueError")         \* roles.remove(from_team.role)
        ELSE [r EXCEPT !.pc = "move_edit", !.edit = (roles[m] \ gone) \cup new]

\* move is entered with r.cur its members (lines 47-51).
MoveEnter(r) ==
    IF r.cur = <<>> THEN [r EXCEPT !.pc = "return"]
    ELSE IF r.from_team = NoGroup /\ r.to = NoGroup THEN [r EXCEPT !.pc = "return"]
    ELSE MoveIssue([r EXCEPT !.edits = 0, !.bye = 0, !.wel = 0])

\* move returned: Lobby.add_members goes on with its next member and the
\* next team (objects.py 156-157); any other caller returns.
MoveReturn(r) ==
    IF r.cmd = "add" /\ r.rest # <<>>
    THEN MoveIssue([r EXCEPT !.cur = <<Head(r.rest)>>, !.rest = Tail(r.rest),
                            !.to = r.to + 1, !.edits = 0, !.bye = 0, !.wel = 0])
    ELSE [r EXCEPT !.pc = "return"]

\* Mutant: welcome=False is taken like the default.
after_edits_deaf(r) ==
    IF HasText(r.l, r.from_team) THEN [r EXCEPT !.pc = "move_bye"]
    ELSE IF HasText(r.l, r.to) THEN [r EXCEPT !.pc = "move_welcome"]
    ELSE MoveReturn(r)

\* Every member is edited (lines 63-72): nothing more when welcome is False,
\* else the Goodbye is awaited, or the Welcome, when the channel exists.
after_edits(r) ==
    IF r.welcome = "False" THEN MoveReturn(r)
    ELSE IF HasText(r.l, r.from_team) THEN [r EXCEPT !.pc = "move_bye"]
    ELSE IF HasText(r.l, r.to) THEN [r EXCEPT !.pc = "move_welcome"]
    ELSE MoveReturn(r)

\* Team.move(*args, from_team, to_team, welcome) is called on groups of
\* lobby l.
MoveBegin(t, l, args, from_team, to_team, welcome) ==
    /\ FreeSlot(t)
    /\ Settle(t, MoveEnter([Idle EXCEPT !.cmd = "move", !.l = l, !.cur = args,
                                        !.k = Len(args), !.from_team = from_team,
                                        !.to = to_team, !.welcome = welcome]))
    /\ UNCHANGED <<lobbies, react_to_join, obj, roles, settings, allocated, hist>>

\* member.edit(roles=roles) landed; the next member's edit is issued, or the
\* loop is over.
MoveEdit(t) ==
    /\ At(t, "move_edit")
    /\ LET r == task[t]
           q == [r EXCEPT !.cur = Tail(r.cur), !.edits = r.edits + 1]
       IN  IF r.to # NoGroup /\ RoleStatus(r.l, r.to) # "live"
           THEN /\ Settle(t, Raise(r, "HTTPException"))
                /\ roles' = roles
           ELSE /\ roles' = [roles EXCEPT ![Head(r.cur)] = r.edit]
                /\ Settle(t, IF q.cur # <<>> THEN MoveIssue(q) ELSE after_edits(q))
    /\ UNCHANGED <<lobbies, react_to_join, obj, settings, allocated, hist>>

\* from_team.text.send("Goodbye, ...") landed.
MoveBye(t) ==
    /\ At(t, "move_bye")
    /\ LET r == task[t]
           q == [r EXCEPT !.bye = r.bye + 1]
       IN  IF Group(r.l, r.from_team).text # "live"
           THEN Settle(t, Raise(r, "HTTPException"))
           ELSE Settle(t, IF HasText(r.l, r.to) THEN [q EXCEPT !.pc = "move_welcome"]
                          ELSE MoveReturn(q))
    /\ UNCHANGED <<lobbies, react_to_join, obj, roles, settings, allocated, hist>>

\* to_team.text.send("Welcome to the ...") landed.
MoveWelcome(t) ==
    /\ At(t, "move_welcome")
    /\ LET r == task[t]
           q == [r EXCEPT !.wel = r.wel + 1]
       IN  IF Group(r.l, r.to).text # "live"
           THEN Settle(t, Raise(r, "HTTPException"))
           ELSE Settle(t, MoveReturn(q))
    /\ UNCHANGED <<lobbies, react_to_join, obj, roles, settings, allocated, hist>>

\* ---- Lobby.add_members (objects.py 147-159), called on its own -----------------
\* Lines 150-155: whether add_members of k members to split lobby l raises
\* TeamIsFull (first_index is one more than the source's index).
add_full(l, k) ==
    \/ first_index(l) = 0
    \/ (first_index(l) - 1) + k > Len(obj[l].teams)

\* Lobby.add_members(*args, welcome=welcome) is called on lobby l.
AddBegin(t, l, args, welcome) ==
    /\ FreeSlot(t)
    /\ LET r == [Idle EXCEPT !.cmd = "add", !.l = l, !.k = Len(args),
                             !.welcome = welcome]
       IN  Settle(t, IF obj[l].teams # <<>>
                     THEN IF add_full(l, Len(args)) THEN Raise(r, "TeamIsFull")
                          ELSE IF args = <<>> THEN [r EXCEPT !.pc = "return"]
                          ELSE MoveIssue([r EXCEPT !.cur = <<Head(args)>>,
                                                   !.rest = Tail(args),
                                                   !.to = first_index(l)])
                     ELSE MoveEnter([r EXCEPT !.cur = args, !.to = 0]))
    /\ UNCHANGED <<lobbies, react_to_join, obj, roles, settings, allocated, hist>>

\* ---- pug split (pug.py 136-148) and Lobby.assign_teams (objects.py 161-199) -
\* The loop of assign_teams reaches its next iteration: the slice is cut and
\* create_role awaited; or the sizes are exhausted and the call returns.
LoopNext(r) ==
    IF r.sizes = <<>> THEN [r EXCEPT !.pc = "return"]
    ELSE [r EXCEPT !.pc = "split_role",
                   !.cur = Take(r.sampled, Head(r.sizes)),
                   !.sampled = Drop(r.sampled, Head(r.sizes)),
                   !.sizes = Tail(r.sizes)]

\* self.move(*members, from_team=self, to_team=team) is entered (objects.py
\* 47-60): nothing to do for an empty slice, else the first member's edit.
EnterMove(r) ==
    IF r.cur = <<>> THEN LoopNext(r)
    ELSE IssueEdit(r, Head(r.cur), r.l, r.to, "split_edit")

\* The check, then the await of the settings.  The command passes size only
\* (count = 0); count # 0 is assign_teams(count=...) called with the same
\* awaits around it.
SplitBegin(t, cat, size, count) ==
    /\ FreeSlot(t)
    /\ LET r == [Idle EXCEPT !.cmd = "split", !.cat = cat, !.size = size, !.count = count] IN
       IF ~pug_check(cat, TRUE)
       THEN /\ ret' = Report("split", "CheckFailure", r)
            /\ UNCHANGED <<task, hist>>
       ELSE /\ task' = [task EXCEPT ![t] = [r EXCEPT !.pc = "split_cfg"]]
            /\ hist' = hist
            /\ ret' = ret
    /\ UNCHANGED <<lobbies, react_to_join, obj, roles, settings, allocated>>

\* assign_teams returned normally on lobby r.l.
Returned(r) ==
    hist' = IF r.pc = "return" /\ r.cmd = "split"
            THEN [hist EXCEPT !.split_ok[r.l] = TRUE] ELSE hist

\* The settings arrived: self.lobbies[category_id].assign_teams(...) is called
\* and runs to its first await (objects.py 170-188).
SplitCall(t) ==
    /\ At(t, "split_cfg")
    /\ LET l == lookup(task[t].cat)
           r == [task[t] EXCEPT !.l = l, !.text = settings.team_text,
                                !.voice = settings.team_voice]
       IN  IF l = NoLobby
           THEN Settle(t, Raise(r, "KeyError")) /\ hist' = hist
           ELSE IF assign_teams_error(l, r.size, r.count) # "ok"
           THEN Settle(t, Raise(r, "TeamError")) /\ hist' = hist
           ELSE LET num_staging == len(l, 0)
                    size == IF r.count # 0 THEN ceil_div(num_staging, r.count) ELSE r.size
                IN  IF size = 0         \* divmod(num_staging, 0)
                    THEN Settle(t, Raise(r, "ZeroDivisionError")) /\ hist' = hist
                    ELSE \E sampled \in Perms(members(l, 0)) :
                           LET next == LoopNext([r EXCEPT
                                           !.sizes = team_sizes(num_staging, size),
                                           !.sampled = sampled])
                           IN  /\ Settle(t, next)
                               /\ hist' = [hist EXCEPT
                                    !.staged[l] = members(l, 0),
                                    !.split_ok[l] = @ \/ next.pc = "return"]
    /\ UNCHANGED <<lobbies, react_to_join, obj, roles, settings, allocated>>

\* create_role returned: Team(team_role) is appended to self.teams; the
\* channels are asked for, or the slice is moved.
SplitRole(t) ==
    /\ At(t, "split_role")
    /\ LET r == task[t]
           q == [r EXCEPT !.to = Len(obj[r.l].teams) + 1, !.made = r.made + 1]
           next == IF r.text THEN [q EXCEPT !.pc = "split_text"]
                   ELSE IF r.voice THEN [q EXCEPT !.pc = "split_voice"]
                   ELSE EnterMove(q)
       IN  /\ obj' = [obj EXCEPT ![r.l].teams = Append(@, NewTeam)]
           /\ Settle(t, next)
           /\ Returned(next)
    /\ UNCHANGED <<lobbies, react_to_join, roles, settings, allocated>>

\* team.create_text_channel returned.
SplitText(t) ==
    /\ At(t, "split_text")
    /\ LET r == task[t]
           next == IF r.voice THEN [r EXCEPT !.pc = "split_voice"] ELSE EnterMove(r)
       IN  /\ obj' = [obj EXCEPT ![r.l].teams[r.to].text = "live"]
           /\ Settle(t, next)
           /\ Returned(next)
    /\ UNCHANGED <<lobbies, react_to_join, roles, settings, allocated>>

\* team.create_voice_channel returned.
SplitVoice(t) ==
    /\ At(t, "split_voice")
    /\ LET r == task[t]
           next == EnterMove(r)
       IN  /\ obj' = [obj EXCEPT ![r.l].teams[r.to].voice = "live"]
           /\ Settle(t, next)
           /\ Returned(next)
    /\ UNCHANGED <<lobbies, react_to_join, roles, settings, allocated>>

\* member.edit landed for the first member of the slice; the next member's
\* edit is issued, or move returns and the loop goes on.
SplitEdit(t) ==
    /\ At(t, "split_edit")
    /\ LET r == task[t]
           q == [r EXCEPT !.cur = Tail(r.cur)]
           next == IF q.cur = <<>> THEN LoopNext(q)
                   ELSE IssueEdit(q, Head(q.cur), r.l, r.to, "split_edit")
       IN  IF RoleStatus(r.l, r.to) # "live"
           THEN /\ Settle(t, Raise(r, "HTTPException"))
                /\ UNCHANGED <<roles, hist>>
           ELSE /\ roles' = [roles EXCEPT ![Head(r.cur)] = r.edit]
                /\ Settle(t, next)
                /\ Returned(next)
    /\ UNCHANGED <<lobbies, react_to_join, obj, settings, allocated>>

\* The platform call a split awaits (create_role, create_text_channel,
\* create_voice_channel or member.edit) fails: the error leaves assign_teams
\* and the command.
SplitFail(t) ==
    /\ ret = NoRet
    /\ task[t].pc \in {"split_role", "split_text", "split_voice", "split_edit"}
    /\ Settle(t, Raise(task[t], "HTTPException"))
    /\ UNCHANGED <<lobbies, react_to_join, obj, roles, settings, allocated, hist>>

\* ---- pug stop (pug.py 150-166), teardown (objects.py 113-121, 201-204) ------
\* Team.teardown of g is entered: the first delete it awaits.
FirstDelete(g) == IF g.text # "none" THEN "text"
                  ELSE IF g.voice # "none" THEN "voice" ELSE "role"

\* ---- log (formatting.py 35-70) as teardown calls it ---------------------------
\* The names bound in the namespace of formatting.py (lines 1-35).
formatting_names == {"dates", "get_babel_locale", "MAX_FILE", "_message_format", "log"}

\* A global name resolves when the line that uses it runs; NameError if not.
bound(name) == name \in formatting_names

\* What channel.history yields, as log tells histories apart (lines 45-48):
\* no message, messages of bots only, a message of a member.
Histories == {"empty", "bots", "members"}

\* log(team, destination) on a channel with history h: how the call ends and
\* how many messages it sent to the destination (the summary and one file;
\* the number of files is settled by the buffer loop).
log(h) ==
    IF ~bound("BytesIO") THEN [outcome |-> "NameError", sends |-> 0]    \* line 37
    ELSE IF h # "members"                                               \* line 48
    THEN IF ~bound("LOG") THEN [outcome |-> "NameError", sends |-> 0]   \* line 49
         ELSE [outcome |-> "ok", sends |-> 0]
    ELSE IF ~bound("discord") THEN [outcome |-> "NameError", sends |-> 0]   \* line 53
    ELSE [outcome |-> "ok", sends |-> 2]                                \* lines 68-70

\* ---- log (formatting.py 35-70), its buffer loop ---------------------------------
MAX_FILE == 8000000

MaxMessages == 1010     \* longest history read

\* Rendered size of a message in bytes (all lines _message_format yields for
\* it): a long message of two-byte, or of four-byte, characters.
MessageBytes == {8000, 16000}

\* The names log uses that formatting.py does not bind.
Unbound == {"BytesIO", "LOG", "discord"}

\* The namespaces a call of log is followed in: the module as the file binds
\* it, and the module with BytesIO, LOG and discord bound to io.BytesIO, a
\* logger and the discord package.
Namespaces == {formatting_names, formatting_names \cup Unbound}

\* BytesIO.tell() after the writes of buffer b, a sequence of message numbers.
tell(b, bytes) == Len(b) * bytes

\* log is called on a channel whose messages render to `bytes` bytes each
\* (lines 36-40): the first buffer is made and the history asked for.
LogBegin(t, names, bytes) ==
    /\ FreeSlot(t)
    /\ LET r == [Idle EXCEPT !.cmd = "log", !.names = names, !.bytes = bytes] IN
       Settle(t, IF "BytesIO" \notin names THEN Raise(r, "NameError")
                 ELSE [r EXCEPT !.pc = "log_next", !.bios = << <<>> >>])
    /\ UNCHANGED <<lobbies, react_to_join, obj, roles, settings, allocated, hist>>

\* The history yields its next message, of a bot or not (lines 41-47): its
\* lines are written to the last buffer, and a buffer that now holds more
\* than MAX_FILE bytes is rewound and followed by a new one.
LogMessage(t, bot) ==
    /\ At(t, "log_next")
    /\ task[t].pos < MaxMessages
    /\ LET r == task[t]
           n == Len(r.bios)
           written == [r.bios EXCEPT ![n] = Append(@, r.pos + 1)]
       IN  Settle(t, [r EXCEPT !.pos = r.pos + 1,
                               !.authors = r.authors \/ ~bot,
                               !.bios = IF tell(written[n], r.bytes) > MAX_FILE
                                        THEN Append(written, <<>>)
                                        ELSE written])
    /\ UNCHANGED <<lobbies, react_to_join, obj, roles, settings, allocated, hist>>

\* The history is exhausted (lines 48-68): nothing to log, or the files are
\* built from the buffers and the summary is sent.
LogEnd(t) ==
    /\ At(t, "log_next")
    /\ LET r == task[t] IN
       Settle(t, IF r.pos = 0 \/ ~r.authors
                 THEN IF "LOG" \notin r.names THEN Raise(r, "NameError")
                      ELSE [r EXCEPT !.pc = "return"]
                 ELSE IF "discord" \notin r.names THEN Raise(r, "NameError")
                 ELSE [r EXCEPT !.pc = "log_embed"])
    /\ UNCHANGED <<lobbies, react_to_join, obj, roles, settings, allocated, hist>>

\* destination.send(embed=embed) landed; the first file is sent.
LogEmbed(t) ==
    /\ At(t, "log_embed")
    /\ task' = [task EXCEPT ![t] = [@ EXCEPT !.pc = "log_file", !.sent = @ + 1]]
    /\ UNCHANGED <<lobbies, react_to_join, obj, roles, settings, allocated, ret, hist>>

\* destination.send(file=bio) landed; the next file is sent, or log returns.
LogFile(t) ==
    /\ At(t, "log_file")
    /\ LET r == [task[t] EXCEPT !.files = @ + 1, !.sent = @ + 1] IN
       Settle(t, IF r.files = Len(r.bios) THEN [r EXCEPT !.pc = "return"] ELSE r)
    /\ UNCHANGED <<lobbies, react_to_join, obj, roles, settings, allocated, hist>>

\* ---- Lobby.teardown (objects.py 201-204) --------------------------------------
\* Mutant: the lobby tears itself down before its teams.
teardown_order_self_first(l) == [k \in 1..(Len(obj[l].teams) + 1) |-> k - 1]

\* The groups in the order Lobby.teardown tears them down: each team in
\* creation order, then the lobby itself (0).
teardown_order(l) ==
    [k \in 1..(Len(obj[l].teams) + 1) |-> IF k <= Len(obj[l].teams) THEN k ELSE 0]

Done == 0 - 1       \* no group is left to tear down

\* The group torn down after group i.
NextGroup(l, i) ==
    LET o == teardown_order(l)
        k == CHOOSE j \in DOMAIN o : o[j] = i
    IN  IF k < Len(o) THEN o[k + 1] ELSE Done

\* Team.teardown of group i is entered (objects.py 113-117), the channel's
\* history being h: log is called when there is a text channel and an archive
\* destination, then the first delete is awaited.
EnterTeardown(r, i, h) ==
    IF i = Done THEN [r EXCEPT !.pc = "return"]
    ELSE LET g == Group(r.l, i)
             q == [r EXCEPT !.to = i, !.ph = FirstDelete(g)]
         IN  IF g.text # "none" /\ r.archive
             THEN IF log(h).outcome # "ok"
                  THEN Raise([q EXCEPT !.seen = @ \cup {h}], log(h).outcome)
                  ELSE [q EXCEPT !.seen = @ \cup {h}, !.sent = @ + log(h).sends]
             ELSE q

\* The check; the lobby is popped and its triggers removed; the archive
\* setting is awaited.
StopBegin(t, cat) ==
    /\ FreeSlot(t)
    /\ LET r == [Idle EXCEPT !.cmd = "stop", !.cat = cat, !.l = lookup(cat)] IN
       IF ~pug_check(cat, TRUE)
       THEN /\ ret' = Report("stop", "CheckFailure", r)
            /\ UNCHANGED <<task, hist, lobbies, react_to_join>>
       ELSE IF r.l = NoLobby
       THEN /\ ret' = Report("stop", "KeyError", r)
            /\ UNCHANGED <<task, hist, lobbies, react_to_join>>
       ELSE /\ lobbies' = [lobbies EXCEPT ![cat] = NoLobby]
            /\ react_to_join' = [k \in LobbyIds |->
                    IF react_to_join[k] = r.l THEN NoLobby ELSE react_to_join[k]]
            /\ task' = [task EXCEPT ![t] = [r EXCEPT !.pc = "stop_cfg"]]
            /\ hist' = hist
            /\ ret' = ret
    /\ UNCHANGED <<obj, roles, settings, allocated>>

\* The archive setting arrived; Lobby.teardown is entered: the first team's
\* teardown, or the lobby's own when there is no team.
StopConfig(t) ==
    /\ At(t, "stop_cfg")
    /\ LET r == [task[t] EXCEPT !.pc = "stop_delete", !.archive = settings.archive]
       IN  \E h \in Histories : Settle(t, EnterTeardown(r, teardown_order(r.l)[1], h))
    /\ UNCHANGED <<lobbies, react_to_join, obj, roles, settings, allocated, hist>>

\* obj with the resource ph of group i of lobby l deleted.
Deleted(l, i, ph) ==
    IF i = 0
    THEN [obj EXCEPT ![l] = IF ph = "text" THEN [@ EXCEPT !.text = "deleted"]
                            ELSE IF ph = "voice" THEN [@ EXCEPT !.voice = "deleted"]
                            ELSE [@ EXCEPT !.role = "deleted"]]
    ELSE [obj EXCEPT ![l].teams[i] =
                            IF ph = "text" THEN [@ EXCEPT !.text = "deleted"]
                            ELSE IF ph = "voice" THEN [@ EXCEPT !.voice = "deleted"]
                            ELSE [@ EXCEPT !.role = "deleted"]]

\* The awaited delete landed (a deleted role leaves every member); teardown
\* goes on to its next delete, the next group, or returns.
StopDelete(t) ==
    /\ At(t, "stop_delete")
    /\ LET r == task[t]
           g == Group(r.l, r.to)
       IN  IF g[r.ph] # "live"
           THEN /\ Settle(t, Raise(r, "HTTPException"))
                /\ UNCHANGED <<obj, roles>>
           ELSE /\ obj' = Deleted(r.l, r.to, r.ph)
                /\ roles' = IF r.ph = "role"
                            THEN [m \in Members |-> roles[m] \ {Grant(r.l, r.to)}]
                            ELSE roles
                /\ IF r.ph = "text"
                   THEN Settle(t, [r EXCEPT !.ph = IF g.voice # "none" THEN "voice"
                                                  ELSE "role"])
                   ELSE IF r.ph = "voice" THEN Settle(t, [r EXCEPT !.ph = "role"])
                   ELSE \E h \in Histories :
                           Settle(t, EnterTeardown(r, NextGroup(r.l, r.to), h))
    /\ UNCHANGED <<lobbies, react_to_join, settings, allocated, hist>>

\* The outcome of the command that returned is taken by the command layer
\* (a reply to the user, or nothing); the next step of the cog follows.
Deliver ==
    /\ ret # NoRet
    /\ ret' = NoRet
    /\ UNCHANGED <<lobbies, react_to_join, obj, roles, settings, allocated, task, hist>>

\* ---- the cog ----------------------------------------------------------------
Sizes == 0..MaxSize
Channels == Scopes \cup {NoCategory}    \* the category of the invoking channel
Joiners == {1, 2}                       \* the members who join in the life cycle
LifeSizes == 0..LifeSize
AddSizes == 0..AddSize

\* The life cycle of PUGs, each command dispatched when the last has returned.
Next ==
    \/ \E cat \in Channels, category \in Channels : StartBegin(1, cat, category)
    \/ StartRegister(1)
    \/ StartConfig(1)
    \/ StartText(1)
    \/ StartVoice(1)
    \/ StartSend(1)
    \/ \E cat \in Channels, user \in Joiners : JoinBegin(1, cat, user)
    \/ \E k \in LobbyIds, user \in Joiners : ReactionAdd(1, k, user)
    \/ JoinEdit(1)
    \/ \E cat \in Channels, size \in LifeSizes : SplitBegin(1, cat, size, 0)
    \/ SplitCall(1)
    \/ SplitRole(1)
    \/ SplitText(1)
    \/ SplitVoice(1)
    \/ SplitEdit(1)
    \/ \E cat \in Channels : StopBegin(1, cat)
    \/ StopConfig(1)
    \/ StopDelete(1)
    \/ Deliver

Spec == Init /\ [][Next]_vars

\* ---- start, stop and reactions interleaving at their awaits --------------------
RaceNext ==
    \/ \E t \in TaskIds, cat \in Channels, category \in Channels :
          StartBegin(t, cat, category)
    \/ \E t \in TaskIds : StartRegister(t)
    \/ \E t \in TaskIds : StartConfig(t)
    \/ \E t \in TaskIds : StartText(t)
    \/ \E t \in TaskIds : StartVoice(t)
    \/ \E t \in TaskIds : StartSend(t)
    \/ \E t \in TaskIds, k \in LobbyIds, user \in Joiners : ReactionAdd(t, k, user)
    \/ \E t \in TaskIds : JoinEdit(t)
    \/ \E t \in TaskIds, cat \in Channels : StopBegin(t, cat)
    \/ \E t \in TaskIds : StopConfig(t)
    \/ \E t \in TaskIds : StopDelete(t)
    \/ Deliver

RaceSpec == Init /\ [][RaceNext]_vars

\* ---- one lobby, commands one at a time ---------------------------------------
\* A PUG was started in category 1 under the stored settings and n members
\* joined: the state start and n joins leave behind.
LobbyInit ==
    /\ settings \in [team_text : BOOLEAN, team_voice : BOOLEAN, archive : {FALSE}]
    /\ lobbies = [s \in Scopes |-> IF s = 1 THEN 1 ELSE NoLobby]
    /\ react_to_join = [k \in LobbyIds |-> IF k = 1 THEN 1 ELSE NoLobby]
    /\ obj = [l \in LobbyIds |->
                IF l = 1
                THEN [NoObj EXCEPT !.role = "live", !.category = 1,
                         !.text = IF settings.team_text THEN "live" ELSE "none",
                         !.voice = IF settings.team_voice THEN "live" ELSE "none"]
                ELSE NoObj]
    /\ \E n \in 0..NumMembers :
          roles = [m \in Members |-> IF m <= n THEN {Grant(1, 0)} ELSE {}]
    /\ allocated = 1
    /\ task = [t \in TaskIds |-> Idle]
    /\ ret = NoRet
    /\ hist = [split_ok |-> [l \in LobbyIds |-> FALSE],
               staged |-> [l \in LobbyIds |-> {}]]

\* Joins and splits of that lobby, each dispatched when the last has returned.
LobbyNext ==
    \/ \E cat \in Channels, user \in Members : JoinBegin(1, cat, user)
    \/ JoinEdit(1)
    \/ \E cat \in Channels, size \in Sizes, count \in Sizes : SplitBegin(1, cat, size, count)
    \/ SplitCall(1)
    \/ SplitRole(1)
    \/ SplitText(1)
    \/ SplitVoice(1)
    \/ SplitEdit(1)
    \/ Deliver

LobbySpec == LobbyInit /\ [][LobbyNext]_vars

\* ---- one lobby, split and stopped ----------------------------------------------
\* The started lobby with n members staged, the archive channel set or not.
TeardownInit ==
    /\ settings \in [team_text : BOOLEAN, team_voice : BOOLEAN, archive : BOOLEAN]
    /\ lobbies = [s \in Scopes |-> IF s = 1 THEN 1 ELSE NoLobby]
    /\ react_to_join = [k \in LobbyIds |-> IF k = 1 THEN 1 ELSE NoLobby]
    /\ obj = [l \in LobbyIds |->
                IF l = 1
                THEN [NoObj EXCEPT !.role = "live", !.category = 1,
                         !.text = IF settings.team_text THEN "live" ELSE "none",
                         !.voice = IF settings.team_voice THEN "live" ELSE "none"]
                ELSE NoObj]
    /\ \E n \in 0..NumMembers :
          roles = [m \in Members |-> IF m <= n THEN {Grant(1, 0)} ELSE {}]
    /\ allocated = 1
    /\ task = [t \in TaskIds |-> Idle]
    /\ ret = NoRet
    /\ hist = [split_ok |-> [l \in LobbyIds |-> FALSE],
               staged |-> [l \in LobbyIds |-> {}]]

\* A split by size, then the stop, each dispatched when the last has returned.
TeardownNext ==
    \/ \E cat \in Channels, size \in Sizes : SplitBegin(1, cat, size, 0)
    \/ SplitCall(1)
    \/ SplitRole(1)
    \/ SplitText(1)
    \/ SplitVoice(1)
    \/ SplitEdit(1)
    \/ \E cat \in Channels : StopBegin(1, cat)
    \/ StopConfig(1)
    \/ StopDelete(1)
    \/ Deliver

TeardownSpec == TeardownInit /\ [][TeardownNext]_vars

\* ---- one lobby, calls of move ---------------------------------------------------
\* Team.move called on the started lobby: members join it, leave it, or are
\* moved from it to itself, each call made when the last has returned.
MoveNext ==
    \/ \E S \in SUBSET Members, from_team \in {NoGroup, 0}, to_team \in {NoGroup, 0},
          welcome \in Welcomes :
          MoveBegin(1, 1, SeqOf(S), from_team, to_team, welcome)
    \/ MoveEdit(1)
    \/ MoveBye(1)
    \/ MoveWelcome(1)
    \/ Deliver

MoveSpec == LobbyInit /\ [][MoveNext]_vars

\* ---- calls of log -----------------------------------------------------------------
LogNext ==
    \/ \E names \in Namespaces, bytes \in MessageBytes : LogBegin(1, names, bytes)
    \/ \E bot \in BOOLEAN : LogMessage(1, bot)
    \/ LogEnd(1)
    \/ LogEmbed(1)
    \/ LogFile(1)
    \/ Deliver

LogSpec == Init /\ [][LogNext]_vars

\* ---- one lobby, splits whose platform calls may fail ---------------------------
FailNext ==
    \/ \E cat \in Channels, size \in Sizes, count \in Sizes : SplitBegin(1, cat, size, count)
    \/ SplitCall(1)
    \/ SplitRole(1)
    \/ SplitText(1)
    \/ SplitVoice(1)
    \/ SplitEdit(1)
    \/ SplitFail(1)
    \/ Deliver

FailSpec == LobbyInit /\ [][FailNext]_vars

\* ---- one lobby, splits and calls of add_members --------------------------------
AddNext ==
    \/ \E cat \in Channels, size \in AddSizes : SplitBegin(1, cat, size, 0)
    \/ SplitCall(1)
    \/ SplitRole(1)
    \/ SplitText(1)
    \/ SplitVoice(1)
    \/ SplitEdit(1)
    \/ \E S \in SUBSET Members, welcome \in Welcomes : AddBegin(1, 1, SeqOf(S), welcome)
    \/ MoveEdit(1)
    \/ MoveWelcome(1)
    \/ Deliver

AddSpec == LobbyInit /\ [][AddNext]_vars

\* ---- one lobby, splits interleaving at their awaits ------------------------------
SplitRaceNext ==
    \/ \E t \in TaskIds, cat \in Channels, size \in LifeSizes : SplitBegin(t, cat, size, 0)
    \/ \E t \in TaskIds : SplitCall(t)
    \/ \E t \in TaskIds : SplitRole(t)
    \/ \E t \in TaskIds : SplitText(t)
    \/ \E t \in TaskIds : SplitVoice(t)
    \/ \E t \in TaskIds : SplitEdit(t)
    \/ Deliver

SplitRaceSpec == LobbyInit /\ [][SplitRaceNext]_vars

\* ---- starts in a channel of the scope, interleaving at their awaits -------------
StartRaceNext ==
    \/ \E t \in TaskIds, cat \in Scopes : StartBegin(t, cat, NoCategory)
    \/ \E t \in TaskIds : StartRegister(t)
    \/ \E t \in TaskIds : StartConfig(t)
    \/ \E t \in TaskIds : StartText(t)
    \/ \E t \in TaskIds : StartVoice(t)
    \/ \E t \in TaskIds : StartSend(t)
    \/ Deliver

StartRaceSpec == Init /\ [][StartRaceNext]_vars

\* ---- properties ----------------------------------------------------------------
\* assign_teams has just returned normally.
SplitReturned == ret.cmd = "split" /\ ret.outcome = "ok"

TeamsOf(l) == 1..Len(obj[l].teams)

\* Task t, suspended in split before the call of assign_teams, makes the call
\* in this step on lobby l.
CallsAssignTeams(t, l) ==
    /\ At(t, "split_cfg")
    /\ task'[t] # task[t]
    /\ l = lookup(task[t].cat)

\* C1: after a successful assign_teams(size=size) on a non-empty staging set,
\* the member counts of the created teams differ pairwise by at most 1.
C1_TeamSizesDifferByAtMostOne ==
    (SplitReturned /\ ret.count = 0) =>
        \A i, j \in TeamsOf(ret.l) : len(ret.l, i) - len(ret.l, j) <= 1

\* C2: after a successful assign_teams on a staging set S, every member of S
\* holds the grant of exactly one created team and no longer only the lobby's,
\* and the team memberships together are S.
C2_EveryStagedMemberOnExactlyOneTeam ==
    SplitReturned =>
        LET l == ret.l
            S == hist.staged[l]
        IN  /\ \A m \in S : Cardinality({i \in TeamsOf(l) : m \in members(l, i)}) = 1
            /\ \A m \in S : Grant(l, 0) \notin roles[m]
            /\ UNION {members(l, i) : i \in TeamsOf(l)} = S

\* C3: an assign_teams(count=count) call appends at most count teams: never
\* more while it runs, and so no more when it has returned.
C3_AtMostCountTeams ==
    /\ \A t \in TaskIds :
          (task[t].cmd = "split" /\ task[t].count # 0) => task[t].made <= task[t].count
    /\ (SplitReturned /\ ret.count # 0) => ret.made <= ret.count

C3_Witness ==
    /\ SplitReturned
    /\ ret.count = 2
    /\ ret.made = 2
    /\ Len(obj[ret.l].teams) = 2
    /\ len(ret.l, 1) >= 1

\* C4: once an assign_teams call has returned normally on a lobby, every later
\* call with a valid size or count fails with TeamError and changes no team,
\* role, channel or membership.
C4_SecondSplitFails ==
    [][\A t \in TaskIds, l \in LobbyIds :
          (/\ CallsAssignTeams(t, l)
           /\ hist.split_ok[l]
           /\ (task[t].size # 0) # (task[t].count # 0))
          => /\ ret'.cmd = "split"
             /\ ret'.outcome = "TeamError"
             /\ obj' = obj
             /\ roles' = roles]_vars

C4_Witness ==
    /\ ret.cmd = "split"
    /\ ret.outcome = "TeamError"
    /\ ret.l # NoLobby
    /\ hist.split_ok[ret.l]
    /\ (ret.size # 0) # (ret.count # 0)
    /\ len(ret.l, 0) > 0

\* C5: assign_teams on a staging lobby with both size and count, with neither,
\* or with nobody staged fails with TeamError; no team, role or channel is
\* created and no member moved.
C5_BadSplitFailsBeforeAnyEffect ==
    [][\A t \in TaskIds, l \in LobbyIds :
          (/\ CallsAssignTeams(t, l)
           /\ obj[l].teams = <<>>
           /\ \/ (task[t].size # 0) = (task[t].count # 0)
              \/ len(l, 0) = 0)
          => /\ ret'.cmd = "split"
             /\ ret'.outcome = "TeamError"
             /\ obj' = obj
             /\ roles' = roles
             /\ task'[t] = Idle]_vars

C5_Witness ==
    /\ ret.cmd = "split"
    /\ ret.outcome = "TeamError"
    /\ ret.l # NoLobby
    /\ obj[ret.l].teams = <<>>
    /\ ret.size # 0
    /\ ret.count # 0
    /\ len(ret.l, 0) > 0

\* Every team of split lobby l has as many members as the first.
AllTeamsEqual(l) ==
    /\ obj[l].teams # <<>>
    /\ \A i \in TeamsOf(l) : len(l, i) = len(l, 1)

\* C6: on a split lobby whose teams all have the same number of members, a
\* join of one more member reports TeamIsFull; no edit of any member is
\* issued and no grant or team changes.
C6_JoinOnFullTeamsIsRefused ==
    [][\A l \in LobbyIds : AllTeamsEqual(l) =>
          /\ \A t \in TaskIds :
                ~(/\ task[t].cmd = "idle"
                  /\ task'[t].cmd \in {"join", "react"}
                  /\ task'[t].l = l)
          /\ (/\ ret = NoRet
              /\ ret'.cmd \in {"join", "react"}
              /\ ret'.l = l
              /\ task' = task)
             => /\ ret'.outcome = "TeamIsFull"
                /\ roles' = roles
                /\ obj' = obj]_vars

C6_Witness ==
    /\ ret.cmd = "join"
    /\ ret.outcome = "TeamIsFull"
    /\ AllTeamsEqual(ret.l)
    /\ Len(obj[ret.l].teams) >= 2

\* C7: a lobby registered for a scope is never replaced in the registry by
\* another lobby; it leaves the registry only by stop.
C7_RegisteredLobbyNeverReplaced ==
    [][\A s \in Scopes :
          lobbies[s] # NoLobby => lobbies'[s] \in {lobbies[s], NoLobby}]_vars

\* C8: a join, split or stop issued in a scope with no registered lobby is
\* rejected by the check: its body does not start, and the registries and
\* every member's grants stay as they are.
C8_NotRunningIsRejected ==
    [][/\ \A t \in TaskIds :
             (/\ task[t].cmd = "idle"
              /\ task'[t].cmd \in {"join", "split", "stop"})
             => lookup(task'[t].cat) # NoLobby
       /\ (/\ ret = NoRet
           /\ ret'.cmd \in {"join", "split", "stop"}
           /\ task' = task
           /\ lookup(ret'.cat) = NoLobby)
          => /\ ret'.outcome = "CheckFailure"
             /\ UNCHANGED <<lobbies, react_to_join, roles, obj>>]_vars

C8_Witness ==
    /\ ret.cmd = "stop"
    /\ ret.outcome = "CheckFailure"
    /\ lookup(ret.cat) = NoLobby
    /\ allocated > 0

\* C9: every lobby a join trigger maps to is the lobby registered for some
\* scope.
C9_TriggersPointToRegisteredLobbies ==
    \A k \in LobbyIds :
        react_to_join[k] # NoLobby => \E s \in Scopes : lobbies[s] = react_to_join[k]

\* Nothing of lobby l is left on the platform.
AllDeleted(l) ==
    /\ obj[l].role # "live"
    /\ obj[l].text # "live"
    /\ obj[l].voice # "live"
    /\ \A i \in TeamsOf(l) :
          /\ obj[l].teams[i].role # "live"
          /\ obj[l].teams[i].text # "live"
          /\ obj[l].teams[i].voice # "live"

\* C10: when stop has returned for a scope, every role and channel created for
\* a PUG of that scope is deleted.
C10_StopDeletesEverythingOfTheScope ==
    (ret.cmd = "stop" /\ ret.outcome = "ok") =>
        \A l \in LobbyIds : obj[l].category = ret.cat => AllDeleted(l)

\* The groups of lobby l: its teams and the lobby itself (0).
GroupsOf(l) == TeamsOf(l) \cup {0}

\* C11: no resource of a lobby itself is deleted, and no delete of one is
\* awaited by a teardown, while a text channel, voice channel or role of one
\* of its teams still exists.
C11_LobbyDeletedAfterItsTeams ==
    \A l \in LobbyIds :
        (\/ obj[l].role = "deleted"
         \/ obj[l].text = "deleted"
         \/ obj[l].voice = "deleted"
         \/ \E t \in TaskIds : /\ task[t].pc = "stop_delete"
                                /\ task[t].l = l
                                /\ task[t].to = 0)
        => \A i \in TeamsOf(l) : /\ obj[l].teams[i].role # "live"
                                  /\ obj[l].teams[i].text # "live"
                                  /\ obj[l].teams[i].voice # "live"

C11_Witness ==
    /\ \E t \in TaskIds : /\ task[t].pc = "stop_delete"
                           /\ task[t].to = 0
                           /\ task[t].ph = "text"
                           /\ Len(obj[task[t].l].teams) >= 2
                           /\ \A i \in TeamsOf(task[t].l) :
                                 /\ obj[task[t].l].teams[i].text = "deleted"
                                 /\ obj[task[t].l].teams[i].role = "deleted"

\* C12: the teardown of a group with a text channel, an archive destination
\* being given, runs log to its end and then deletes the text channel, the
\* voice channel and the role in this order: while it runs no voice channel
\* is deleted before the text channel nor a role before a channel, and when
\* the stop has ended every group's role and channels are deleted.
C12_LogThenTextVoiceRole ==
    /\ \A l \in LobbyIds : \A i \in GroupsOf(l) :
          /\ Group(l, i).voice = "deleted" => Group(l, i).text # "live"
          /\ Group(l, i).role = "deleted" =>
                (Group(l, i).text # "live" /\ Group(l, i).voice # "live")
    /\ (/\ ret.cmd = "stop"
        /\ ret.archive
        /\ \E i \in GroupsOf(ret.l) : Group(ret.l, i).text # "none")
       => /\ ret.outcome = "ok"
          /\ AllDeleted(ret.l)

\* C15: when log saw only channels with no message or with messages of bots
\* only, it sent nothing to the destination, and the stop whose teardown
\* called it ended with the text channel, voice channel and role of every
\* group deleted.
C15_NothingToLogStillTornDown ==
    (/\ ret.cmd = "stop"
     /\ ret.seen # {}
     /\ ret.seen \subseteq {"empty", "bots"})
    => /\ ret.sent = 0
       /\ ret.outcome = "ok"
       /\ AllDeleted(ret.l)

\* C13: in a call of move no Goodbye or Welcome is awaited or sent before the
\* edit of every member has landed; at most one Goodbye and at most one
\* Welcome are sent; with welcome=False none is sent, and the call still
\* edits every member.
C13_EditsThenAtMostOneGoodbyeAndWelcome ==
    /\ \A t \in TaskIds : task[t].cmd = "move" =>
          /\ task[t].bye <= 1
          /\ task[t].wel <= 1
          /\ (task[t].pc \in {"move_bye", "move_welcome"} \/ task[t].bye + task[t].wel > 0)
                => (task[t].cur = <<>> /\ task[t].edits = task[t].k)
          /\ task[t].welcome = "False"
                => (task[t].pc = "move_edit" /\ task[t].bye + task[t].wel = 0)
    /\ ret.cmd = "move" =>
          /\ ret.bye <= 1
          /\ ret.wel <= 1
          /\ ret.bye + ret.wel > 0 => ret.edits = ret.k
          /\ ret.welcome = "False" =>
                /\ ret.bye + ret.wel = 0
                /\ (ret.outcome = "ok" /\ (ret.from_team # NoGroup \/ ret.to # NoGroup))
                      => ret.edits = ret.k

C13_Witness ==
    /\ ret.cmd = "move"
    /\ ret.outcome = "ok"
    /\ ret.k >= 2
    /\ ret.edits = ret.k
    /\ ret.bye = 1
    /\ ret.wel = 1

\* The buffers of bs one after another.
RECURSIVE Concat(_)
Concat(bs) == IF bs = <<>> THEN <<>> ELSE Head(bs) \o Concat(Tail(bs))

Unassigned(l) ==
    {m \in hist.staged[l] : \A i \in TeamsOf(l) : m \notin members(l, i)}

\* C16: when a platform call of assign_teams has failed, the lobby is not
\* left with teams (so that a further split fails with TeamError) while two
\* or more of the members staged at the call are on no team.
C16_FailedSplitLeavesAtMostOneBehind ==
    (ret.cmd = "split" /\ ret.outcome = "HTTPException")
    => ~(/\ obj[ret.l].teams # <<>>
         /\ Cardinality(Unassigned(ret.l)) >= 2)

\* The size of the largest team of lobby l, and the teams below that size.
MaxTeamSize(l) ==
    IF obj[l].teams = <<>> THEN 0
    ELSE CHOOSE n \in 0..NumMembers :
            /\ \E i \in TeamsOf(l) : len(l, i) = n
            /\ \A i \in TeamsOf(l) : len(l, i) <= n
UnderSized(l) == {i \in TeamsOf(l) : len(l, i) < MaxTeamSize(l)}

\* C17: add_members of k >= 1 members to a split lobby goes on to add them if
\* and only if k is at most the number of teams below the largest team's
\* size, and raises TeamIsFull otherwise; the first member goes to the first
\* such team, each next member to a later team that is below the largest
\* team's size, and the size of the largest team does not grow.
C17_AddFillsUnderSizedTeamsInOrder ==
    [][\A t \in TaskIds :
          /\ (/\ ret = NoRet
              /\ task[t].cmd = "idle"
              /\ \/ task'[t].cmd = "add"
                 \/ ret'.cmd = "add" /\ task' = task)
             => LET c == IF task'[t].cmd = "add" THEN task'[t] ELSE ret' IN
                (obj[c.l].teams # <<>> /\ c.k >= 1) =>
                   /\ (task'[t].cmd = "add") <=> (c.k <= Cardinality(UnderSized(c.l)))
                   /\ ret'.cmd = "add" => ret'.outcome = "TeamIsFull"
                   /\ task'[t].cmd = "add" =>
                         /\ c.to \in UnderSized(c.l)
                         /\ \A i \in UnderSized(c.l) : c.to <= i
          /\ \A l \in LobbyIds :
                (task[t].cmd = "add" /\ task[t].l = l /\ obj[l].teams # <<>>) =>
                   /\ MaxTeamSize(l)' <= MaxTeamSize(l)
                   /\ (task'[t].cmd = "add" /\ task'[t].to # task[t].to) =>
                         /\ task'[t].to > task[t].to
                         /\ task'[t].to \in UnderSized(l)']_vars

\* C18: the teams of a lobby are made by one call of assign_teams: a call
\* appends its first team only to a lobby that has no team yet, whatever
\* other split is in flight.
C18_TeamsCreatedByOneSplit ==
    [][\A t \in TaskIds :
          (/\ task[t].pc = "split_role"
           /\ task[t].made = 0
           /\ task'[t] # task[t]
           /\ obj' # obj)
          => obj[task[t].l].teams = <<>>]_vars

\* C19: every lobby whose role has been created is the lobby registered for
\* its scope: no start creates a lobby that another start overwrites in the
\* registry.
C19_CreatedLobbyStaysRegistered ==
    \A l \in LobbyIds :
        obj[l].role = "live" => lookup(obj[l].category) = l

\* C20: no member holds the grants of two teams of the same lobby.
C20_AtMostOneTeamPerMember ==
    \A m \in Members, l \in LobbyIds :
        Cardinality({i \in TeamsOf(l) : Grant(l, i) \in roles[m]}) <= 1

====
